---- MODULE Spec2Model ----
(***************************************************************************)
(* Daily activity ledger and streak state machine of the ghostbuster bot.  *)
(*                                                                         *)
(* The three Supabase tables are sets of rows.  Every function of          *)
(* db_operations.py is an operator from a database value (and the clock)   *)
(* to a database value and a return value; the storage calls of a function *)
(* are numbered in execution order and the parameter `fault` names the one *)
(* call that raises (0: none raises).                                      *)
(*                                                                         *)
(* Dates are numbered 1, 2, ...; date.isoformat() is injective and keeps   *)
(* the order of dates, and the code only compares ISO dates for equality   *)
(* and order, so a date stands for its ISO string.                         *)
(***************************************************************************)
EXTENDS Integers, Sequences, FiniteSets, TLC

\* ------------------------------------------------------------------ bounds
MaxDay == 2
MaxStreak == 3
MaxTime == 1
MaxFault == 11
MaxWindow == 2

Chats == {1}
Users == {1, 2}
Keys == Chats \X Users
\* the usernames Telegram may report for a user
UsernamesOf(user_id) == IF user_id = 1 THEN {"bob"} ELSE {"@bob"}
Faults == 0..MaxFault

NULL == "null"

VARIABLES
    tracked_users,   \* table tracked_users: rows [chat_id, user_id, username]
    user_streaks,    \* table user_streaks: rows [chat_id, user_id, success_streak, failure_streak, last_activity_date]
    daily_activity,  \* table daily_activity: rows [chat_id, user_id, activity_date, messaged, first_message_time]
    today,           \* the activity date of the clock (Asia/Singapore)
    time,            \* the time of day of the clock
    sweep_due,       \* the daily job of the scheduler is pending
    log,             \* the last call completed on the current date and what it returned
    hist,            \* per key, what happened on the current date (history)
    frames           \* per handler thread, the call it is in and the locals of the call

vars == <<tracked_users, user_streaks, daily_activity, today, time, sweep_due, log, hist, frames>>

\* ---------------------------------------------------------------- database
\* The database as one value.
Db == [tracked_users |-> tracked_users, user_streaks |-> user_streaks,
       daily_activity |-> daily_activity]

\* datetime.datetime.now(SG_TIMEZONE): the instant, and .isoformat() of it
Now == <<today, time>>

\* .select('*').eq('chat_id', ..).eq('user_id', ..) on tracked_users
SelectTracked(db, chat_id, user_id) ==
    {r \in db.tracked_users : r.chat_id = chat_id /\ r.user_id = user_id}

\* the user_streaks rows of a chat, whatever the user
SelectStreak_chat(db, chat_id, user_id) ==
    {r \in db.user_streaks : r.chat_id = chat_id}

\* .select('*').eq('chat_id', ..).eq('user_id', ..) on user_streaks
SelectStreak(db, chat_id, user_id) ==
    {r \in db.user_streaks : r.chat_id = chat_id /\ r.user_id = user_id}

\* .select('*').eq('chat_id', ..).eq('user_id', ..).eq('activity_date', ..) on daily_activity
SelectActivity(db, chat_id, user_id, date) ==
    {r \in db.daily_activity :
        r.chat_id = chat_id /\ r.user_id = user_id /\ r.activity_date = date}

\* result.data[0]: the first row of a non-empty result
First(rows) == CHOOSE r \in rows : TRUE

\* ON DELETE CASCADE of user_streaks and daily_activity on tracked_users
OnDeleteCascade(db, chat_id, user_id) ==
    [tracked_users |-> db.tracked_users \ SelectTracked(db, chat_id, user_id),
     user_streaks |-> db.user_streaks \ SelectStreak(db, chat_id, user_id),
     daily_activity |-> {r \in db.daily_activity :
                            ~(r.chat_id = chat_id /\ r.user_id = user_id)}]

\* ------------------------------------------------------------ update_streak
\* update_streak without the reset of the other counter
StreakUpdate_noreset(cur, success, date) ==
    [cur EXCEPT !.success_streak = IF success THEN cur.success_streak + 1 ELSE @,
                !.failure_streak = IF success THEN @ ELSE cur.failure_streak + 1,
                !.last_activity_date = date]

\* update_streak writing 0 for a failure instead of the count, and no date
StreakUpdate_nofail(cur, success, date) ==
    [cur EXCEPT !.success_streak = IF success THEN cur.success_streak + 1 ELSE 0,
                !.failure_streak = 0]

\* The streak row update_streak writes over `cur`.
StreakUpdate(cur, success, date) ==
    [cur EXCEPT !.success_streak = IF success THEN cur.success_streak + 1 ELSE 0,
                !.failure_streak = IF success THEN 0 ELSE cur.failure_streak + 1,
                !.last_activity_date = date]

\* the first streak row inserted with both counters 0
StreakInsert_zero(chat_id, user_id, success, date) ==
    [chat_id |-> chat_id, user_id |-> user_id,
     success_streak |-> 0, failure_streak |-> 0, last_activity_date |-> date]

\* The streak row update_streak inserts when there is none.
StreakInsert(chat_id, user_id, success, date) ==
    [chat_id |-> chat_id, user_id |-> user_id,
     success_streak |-> IF success THEN 1 ELSE 0,
     failure_streak |-> IF success THEN 0 ELSE 1,
     last_activity_date |-> date]

\* update_streak; its storage calls are number n (select) and n + 1 (insert or
\* update).  An exception is caught and False returned.
update_streak(db, chat_id, user_id, success, date, n, fault) ==
    IF fault = n THEN [db |-> db, ret |-> FALSE]
    ELSE LET result == SelectStreak(db, chat_id, user_id) IN
         IF fault = n + 1 THEN [db |-> db, ret |-> FALSE]
         ELSE IF result = {}
              THEN [db |-> [db EXCEPT !.user_streaks =
                              @ \cup {StreakInsert(chat_id, user_id, success, date)}],
                    ret |-> TRUE]
              ELSE [db |-> [db EXCEPT !.user_streaks =
                              (@ \ result) \cup
                              {StreakUpdate(First(result), success, date)}],
                    ret |-> TRUE]

\* ---------------------------------------------------------- is_user_tracked


\* is_user_tracked answering True for every user
is_user_tracked_always(db, chat_id, user_id, n, fault) == TRUE

\* One storage call (number n); an exception is caught and False returned.
is_user_tracked(db, chat_id, user_id, n, fault) ==
    IF fault = n THEN FALSE ELSE SelectTracked(db, chat_id, user_id) # {}

\* --------------------------------------------------------- add_tracked_user
\* The user_streaks row add_tracked_user inserts.
InitialStreakRow(chat_id, user_id) ==
    [chat_id |-> chat_id, user_id |-> user_id,
     success_streak |-> 0, failure_streak |-> 0, last_activity_date |-> NULL]

\* The daily_activity row add_tracked_user inserts for today.
SeedActivityRow_messaged(chat_id, user_id, date) ==
    [chat_id |-> chat_id, user_id |-> user_id, activity_date |-> date,
     messaged |-> TRUE, first_message_time |-> NULL]

SeedActivityRow(chat_id, user_id, date) ==
    [chat_id |-> chat_id, user_id |-> user_id, activity_date |-> date,
     messaged |-> FALSE, first_message_time |-> NULL]

\* add_tracked_user without the test of result.data
add_tracked_user_nocheck(db, chat_id, user_id, username, date, fault) ==
    IF fault = 1 \/ fault = 2 THEN [db |-> db, ret |-> FALSE]
    ELSE LET db1 == [db EXCEPT !.tracked_users = @ \cup
                        {[chat_id |-> chat_id, user_id |-> user_id,
                          username |-> username]}] IN
         IF fault = 3 THEN [db |-> db1, ret |-> FALSE]
         ELSE LET db2 == [db1 EXCEPT !.user_streaks = @ \cup
                             {InitialStreakRow(chat_id, user_id)}] IN
              IF fault = 4 THEN [db |-> db2, ret |-> FALSE]
              ELSE [db |-> [db2 EXCEPT !.daily_activity = @ \cup
                               {SeedActivityRow(chat_id, user_id, date)}],
                    ret |-> TRUE]

\* add_tracked_user writing the username over the row of a tracked pair
add_tracked_user_upsert(db, chat_id, user_id, username, date, fault) ==
    IF fault = 1 THEN [db |-> db, ret |-> FALSE]
    ELSE IF SelectTracked(db, chat_id, user_id) # {}
         THEN [db |-> [db EXCEPT !.tracked_users =
                          (@ \ SelectTracked(db, chat_id, user_id)) \cup
                          {[chat_id |-> chat_id, user_id |-> user_id,
                            username |-> username]}],
               ret |-> FALSE]
    ELSE add_tracked_user_nocheck(db, chat_id, user_id, username, date, fault)

\* Storage calls: 1 select tracked_users, 2 insert tracked_users, 3 insert
\* user_streaks, 4 insert daily_activity.  An exception at any of them is caught
\* and False returned; the writes made before it stay.
add_tracked_user(db, chat_id, user_id, username, date, fault) ==
    IF fault = 1 THEN [db |-> db, ret |-> FALSE]
    ELSE IF SelectTracked(db, chat_id, user_id) # {} THEN [db |-> db, ret |-> FALSE]
    ELSE IF fault = 2 THEN [db |-> db, ret |-> FALSE]
    ELSE LET db1 == [db EXCEPT !.tracked_users = @ \cup
                        {[chat_id |-> chat_id, user_id |-> user_id,
                          username |-> username]}] IN
         IF fault = 3 THEN [db |-> db1, ret |-> FALSE]
         ELSE LET db2 == [db1 EXCEPT !.user_streaks = @ \cup
                             {InitialStreakRow(chat_id, user_id)}] IN
              IF fault = 4 THEN [db |-> db2, ret |-> FALSE]
              ELSE [db |-> [db2 EXCEPT !.daily_activity = @ \cup
                               {SeedActivityRow(chat_id, user_id, date)}],
                    ret |-> TRUE]

\* ------------------------------------------------------ remove_tracked_user
\* remove_tracked_user without the test of result.data
remove_tracked_user_nocheck(db, chat_id, user_id, fault) ==
    IF fault = 1 \/ fault = 2 THEN [db |-> db, ret |-> FALSE]
    ELSE [db |-> OnDeleteCascade(db, chat_id, user_id), ret |-> TRUE]

\* Storage calls: 1 select tracked_users, 2 delete (cascading).
remove_tracked_user(db, chat_id, user_id, fault) ==
    IF fault = 1 THEN [db |-> db, ret |-> FALSE]
    ELSE IF SelectTracked(db, chat_id, user_id) = {} THEN [db |-> db, ret |-> FALSE]
    ELSE IF fault = 2 THEN [db |-> db, ret |-> FALSE]
    ELSE [db |-> OnDeleteCascade(db, chat_id, user_id), ret |-> TRUE]

\* ------------------------------------------------------ record_user_message
\* every select of today's rows taken as empty
NoRow_always(result) == TRUE

\* not result.data
NoRow(result) == result = {}

\* result.data[0]['messaged'] read as true of any row
AlreadyMessaged_always(result) == TRUE

\* the test of result.data[0]['messaged'] left out
AlreadyMessaged_never(result) == FALSE

\* result.data[0]['messaged'] of today's rows
AlreadyMessaged(result) == First(result).messaged

\* Storage calls: 1 is_user_tracked, 2 select daily_activity, 3 insert or update
\* daily_activity, 4 and 5 update_streak.  now = <<date, time of day>>.
\* Returns (success, is_first_message).
record_user_message(db, chat_id, user_id, now, fault) ==
    IF ~is_user_tracked(db, chat_id, user_id, 1, fault)
    THEN [db |-> db, ret |-> <<FALSE, FALSE>>]
    ELSE IF fault = 2 THEN [db |-> db, ret |-> <<FALSE, FALSE>>]
    ELSE LET result == SelectActivity(db, chat_id, user_id, now[1]) IN
         IF NoRow(result)
         THEN IF fault = 3 THEN [db |-> db, ret |-> <<FALSE, FALSE>>]
              ELSE LET db1 == [db EXCEPT !.daily_activity = @ \cup
                                  {[chat_id |-> chat_id, user_id |-> user_id,
                                    activity_date |-> now[1], messaged |-> TRUE,
                                    first_message_time |-> now]}] IN
                   [db |-> update_streak(db1, chat_id, user_id, TRUE, now[1], 4, fault).db,
                    ret |-> <<TRUE, TRUE>>]
         ELSE IF ~AlreadyMessaged(result)
         THEN IF fault = 3 THEN [db |-> db, ret |-> <<FALSE, FALSE>>]
              ELSE LET db1 == [db EXCEPT !.daily_activity = (@ \ result) \cup
                                  {[r EXCEPT !.messaged = TRUE,
                                             !.first_message_time = now] : r \in result}] IN
                   [db |-> update_streak(db1, chat_id, user_id, TRUE, now[1], 4, fault).db,
                    ret |-> <<TRUE, TRUE>>]
         ELSE [db |-> db, ret |-> <<TRUE, FALSE>>]

\* ------------------------------------------- get_tracked_users_without_message
\* the select of the sweep finding no row
SelectMessaged_none(db, chat_id, user_id, date) == {}

\* the select of the sweep without .eq('messaged', True): any row of the date
SelectMessaged_any(db, chat_id, user_id, date) ==
    SelectActivity(db, chat_id, user_id, date)

\* .eq('activity_date', today).eq('messaged', True) on the daily_activity rows of
\* the user
SelectMessaged(db, chat_id, user_id, date) ==
    {r \in SelectActivity(db, chat_id, user_id, date) : r.messaged}

\* the row of the sweep with a first_message_time of the date
FailureRow_stamped(chat_id, user_id, date) ==
    [chat_id |-> chat_id, user_id |-> user_id, activity_date |-> date,
     messaged |-> FALSE, first_message_time |-> <<date, 0>>]

\* The daily_activity row the sweep inserts for a user without one.
FailureRow(chat_id, user_id, date) ==
    [chat_id |-> chat_id, user_id |-> user_id, activity_date |-> date,
     messaged |-> FALSE, first_message_time |-> NULL]

\* The key that stands for "no user".
NoKey == <<0, 0>>

\* The loop over the tracked users, in the order the select returned them.  n is
\* the number of the next storage call.  Per user: select the date's rows with
\* messaged = True; when there is none the user is appended, the date's rows are
\* selected again and a messaged = False row is inserted when there is none.
\* An exception leaves the loop: raised is TRUE, `at` is the user whose storage
\* call raised, and the rows written stay.
RECURSIVE SweepLoop(_, _, _, _, _, _)
SweepLoop(db, date, users, n, fault, acc) ==
    IF users = <<>> THEN [db |-> db, n |-> n, ret |-> acc, raised |-> FALSE, at |-> NoKey]
    ELSE LET chat_id == Head(users).chat_id
             user_id == Head(users).user_id
             raise == [db |-> db, n |-> fault + 1, ret |-> acc, raised |-> TRUE,
                       at |-> <<chat_id, user_id>>]
         IN
         IF fault = n THEN raise
         ELSE LET result == SelectMessaged(db, chat_id, user_id, date) IN
              IF result # {}
              THEN SweepLoop(db, date, Tail(users), n + 1, fault, acc)
              ELSE LET acc1 == Append(acc, <<chat_id, user_id>>) IN
                   IF fault = n + 1 THEN raise
                   ELSE LET existing == SelectActivity(db, chat_id, user_id, date) IN
                        IF existing # {}
                        THEN SweepLoop(db, date, Tail(users), n + 2, fault, acc1)
                        ELSE IF fault = n + 2 THEN raise
                        ELSE SweepLoop(
                                [db EXCEPT !.daily_activity = @ \cup
                                    {FailureRow(chat_id, user_id, date)}],
                                date, Tail(users), n + 3, fault, acc1)

\* get_tracked_users_without_message: storage call 1 selects the tracked users
\* (order: the order of the rows in the answer), then the loop.  An exception is
\* caught and [] returned.
get_tracked_users_without_message(db, date, order, fault) ==
    IF fault = 1 THEN [db |-> db, n |-> 2, ret |-> <<>>, at |-> NoKey]
    ELSE LET loop == SweepLoop(db, date, order, 2, fault, <<>>) IN
         [db |-> loop.db, n |-> loop.n,
          ret |-> IF loop.raised THEN <<>> ELSE loop.ret, at |-> loop.at]

\* ------------------------------------------------------- mark_daily_failures
\* The loop of mark_daily_failures: update_streak(.., False) per listed user.
RECURSIVE FailuresLoop(_, _, _, _, _)
FailuresLoop(db, date, failures, n, fault) ==
    IF failures = <<>> THEN db
    ELSE FailuresLoop(
            update_streak(db, Head(failures)[1], Head(failures)[2], FALSE, date, n, fault).db,
            date, Tail(failures), n + 2, fault)

\* raised_at: the user in whose processing the storage call `fault` was made,
\* NoKey when it was made for no user or not at all.
mark_daily_failures(db, date, order, fault) ==
    LET failures == get_tracked_users_without_message(db, date, order, fault)
        i == fault - failures.n
    IN
    [db |-> FailuresLoop(failures.db, date, failures.ret, failures.n, fault),
     ret |-> failures.ret,
     raised_at |-> IF failures.at # NoKey THEN failures.at
                   ELSE IF i >= 0 /\ i < 2 * Len(failures.ret)
                        THEN failures.ret[(i \div 2) + 1]
                        ELSE NoKey]

\* The sequences that list every element of the finite set S once: the orders in
\* which a select without ORDER BY may return the rows S.
Orders(S) ==
    {q \in [1..Cardinality(S) -> S] : \A i, j \in 1..Cardinality(S) : q[i] = q[j] => i = j}

\* {}: the empty dict a function returns for "nothing"
EmptyDict == <<>>

\* ------------------------------------------------------ get_user_by_username
\* the tracked_users rows of a chat with the username, read in any chat
SelectUsername_anychat(db, chat_id, username) ==
    {r \in db.tracked_users : r.username = username}

\* .eq('chat_id', chat_id).eq('username', username)
SelectUsername(db, chat_id, username) ==
    {r \in db.tracked_users : r.chat_id = chat_id /\ r.username = username}

\* result.data[0]: the first of the rows selected, in the order the rows come
Data0(rows, order) ==
    order[CHOOSE i \in 1..Len(order) :
              order[i] \in rows /\ \A j \in 1..(i - 1) : order[j] \notin rows]

\* Storage calls: 1 select by username, 2 select by '@' + username.
get_user_by_username(db, chat_id, username, order, fault) ==
    IF fault = 1 THEN EmptyDict
    ELSE IF SelectUsername(db, chat_id, username) # {}
         THEN Data0(SelectUsername(db, chat_id, username), order)
    ELSE IF fault = 2 THEN EmptyDict
    ELSE IF SelectUsername(db, chat_id, "@" \o username) # {}
         THEN Data0(SelectUsername(db, chat_id, "@" \o username), order)
    ELSE EmptyDict

\* ----------------------------------------------------------- get_user_streak
\* get_user_streak answering a (0, 0) row when the user has none
get_user_streak_default(db, chat_id, user_id, n, fault) ==
    IF fault = n THEN EmptyDict
    ELSE IF SelectStreak(db, chat_id, user_id) = {}
         THEN [chat_id |-> chat_id, user_id |-> user_id, success_streak |-> 0,
               failure_streak |-> 0, last_activity_date |-> NULL]
         ELSE First(SelectStreak(db, chat_id, user_id))

\* One storage call (number n); result.data[0], or {} when there is no row or
\* the call raises.
get_user_streak(db, chat_id, user_id, n, fault) ==
    IF fault = n THEN EmptyDict
    ELSE LET result == SelectStreak(db, chat_id, user_id) IN
         IF result = {} THEN EmptyDict ELSE First(result)

\* -------------------------------------------------- get_user_activity_report
\* start_date one day early
WindowStart_early(end_date, days) == end_date - days

\* start_date = end_date - datetime.timedelta(days=days-1)
WindowStart(end_date, days) == end_date - (days - 1)

\* .gte('activity_date', start_date).lte('activity_date', end_date) on the
\* daily_activity rows of the user
SelectWindow(db, chat_id, user_id, start_date, end_date) ==
    {r \in db.daily_activity :
        /\ r.chat_id = chat_id /\ r.user_id = user_id
        /\ r.activity_date >= start_date /\ r.activity_date <= end_date}

\* .order('activity_date', desc=True): the sequences that list the rows by
\* falling date (rows of one date in either order).
OrderDesc(rows) ==
    {q \in Orders(rows) :
        \A i, j \in 1..Len(q) : i < j => q[i].activity_date >= q[j].activity_date}

\* Storage calls: 1 get_user_streak, 2 the select of the history.  `history` is
\* the answer of the second; an exception is caught and {} returned.  Nothing is
\* written.
get_user_activity_report(db, chat_id, user_id, days, end_date, history, fault) ==
    LET streak == get_user_streak(db, chat_id, user_id, 1, fault) IN
    IF streak = EmptyDict THEN EmptyDict
    ELSE IF fault = 2 THEN EmptyDict
    ELSE [success_streak |-> streak.success_streak,
          failure_streak |-> streak.failure_streak,
          daily_history |-> history]

\* ------------------------------------------------------------------ helpers
Sat(n) == IF n >= 2 THEN 2 ELSE n + 1

\* No streak counter above the model's cap.
Capped(db) ==
    \A r \in db.user_streaks : r.success_streak <= MaxStreak /\ r.failure_streak <= MaxStreak

\* The counters of the streak row of a key, (0, 0) when it has none.
SuccessOf(db, k) ==
    IF SelectStreak(db, k[1], k[2]) = {} THEN 0
    ELSE First(SelectStreak(db, k[1], k[2])).success_streak
FailureOf(db, k) ==
    IF SelectStreak(db, k[1], k[2]) = {} THEN 0
    ELSE First(SelectStreak(db, k[1], k[2])).failure_streak

IsTracked(db, k) == SelectTracked(db, k[1], k[2]) # {}

\* The key has a row with messaged = True for the date.
Messaged(db, k, date) ==
    \E r \in SelectActivity(db, k[1], k[2], date) : r.messaged

\* The handler threads (telebot runs the handlers on worker threads, the
\* scheduler runs its job on a thread of its own).
Threads == {1, 2}

\* The frame of a thread that is in no call.
Idle == [pc |-> "idle", op |-> "none", chat_id |-> 0, user_id |-> 0, now |-> <<0, 0>>,
         result |-> {}, users |-> <<>>, failures |-> <<>>, todo |-> <<>>, s0 |-> 0]

NoHist == [calls |-> 0, firsts |-> 0, s0 |-> 0, sweeps |-> 0, f0 |-> 0, day_firsts |-> 0]

\* The history of a pair that is enrolled or unenrolled: begun again, but for the
\* count of the first-of-day answers of the date.
ReHist(h) == [NoHist EXCEPT !.day_firsts = h.day_firsts]
NoLog == [op |-> "none", chat_id |-> 0, user_id |-> 0, ret |-> FALSE]

SetDb(db) ==
    /\ tracked_users' = db.tracked_users
    /\ user_streaks' = db.user_streaks
    /\ daily_activity' = db.daily_activity

\* -------------------------------------------------------------------- state
Init ==
    /\ tracked_users = {}
    /\ user_streaks = {}
    /\ daily_activity = {}
    /\ today = 1
    /\ time = 0
    /\ sweep_due = FALSE
    /\ log = NoLog
    /\ hist = [k \in Keys |-> NoHist]
    /\ frames = [t \in Threads |-> Idle]

\* ------------------------------------------------------------------ actions
\* /track: add_tracked_user(chat_id, user_id, username)
Track(chat_id, user_id, username, fault) ==
    LET r == add_tracked_user(Db, chat_id, user_id, username, today, fault) IN
    /\ SetDb(r.db)
    /\ log' = [op |-> "add_tracked_user", chat_id |-> chat_id, user_id |-> user_id, ret |-> r.ret]
    /\ hist' = IF r.ret THEN [hist EXCEPT ![<<chat_id, user_id>>] = ReHist(@)] ELSE hist
    /\ UNCHANGED <<today, time, sweep_due, frames>>

\* /untrack: remove_tracked_user(chat_id, user_id)
Untrack(chat_id, user_id, fault) ==
    LET r == remove_tracked_user(Db, chat_id, user_id, fault) IN
    /\ SetDb(r.db)
    /\ log' = [op |-> "remove_tracked_user", chat_id |-> chat_id, user_id |-> user_id, ret |-> r.ret]
    /\ hist' = IF r.ret THEN [hist EXCEPT ![<<chat_id, user_id>>] = ReHist(@)] ELSE hist
    /\ UNCHANGED <<today, time, sweep_due, frames>>

\* A message of user_id in chat_id: record_user_message(chat_id, user_id)
RecordEvent(chat_id, user_id, fault) ==
    LET k == <<chat_id, user_id>>
        r == record_user_message(Db, chat_id, user_id, Now, fault) IN
    /\ Capped(r.db)
    /\ SetDb(r.db)
    /\ log' = [op |-> "record_user_message", chat_id |-> chat_id, user_id |-> user_id, ret |-> r.ret]
    /\ hist' = IF r.ret[1]
               THEN [hist EXCEPT ![k] =
                       [@ EXCEPT !.calls = Sat(@),
                                 !.firsts = IF r.ret[2] THEN Sat(@) ELSE @,
                                 !.day_firsts = IF r.ret[2] THEN Sat(@) ELSE @,
                                 !.s0 = IF hist[k].calls = 0 THEN SuccessOf(Db, k) ELSE @]]
               ELSE hist
    /\ UNCHANGED <<today, time, sweep_due, frames>>

\* One run of send_daily_failure_messages: mark_daily_failures()
Sweep(order, fault) ==
    LET r == mark_daily_failures(Db, today, order, fault) IN
    /\ Capped(r.db)
    /\ SetDb(r.db)
    /\ log' = [op |-> "mark_daily_failures", chat_id |-> 0, user_id |-> 0, ret |-> r.ret,
               raised_at |-> r.raised_at]
    /\ hist' = [k \in Keys |->
                  IF IsTracked(Db, k)
                  THEN [hist[k] EXCEPT !.sweeps = Sat(@),
                                       !.f0 = IF hist[k].sweeps = 0
                                              THEN FailureOf(Db, k) ELSE @]
                  ELSE hist[k]]
    /\ UNCHANGED <<today, time, frames>>

\* The job schedule runs once a day, at 00:00.
ScheduledSweep(fault) ==
    /\ sweep_due
    /\ \E order \in Orders(tracked_users) : Sweep(order, fault)
    /\ sweep_due' = FALSE

\* A further run of the sweep, mark_daily_failures(), whenever it is called.
TriggerSweep(fault) ==
    /\ \E order \in Orders(tracked_users) : Sweep(order, fault)
    /\ UNCHANGED sweep_due

\* /report: get_user_activity_report(chat_id, user_id, days)
Report(chat_id, user_id, days, fault) ==
    \E history \in OrderDesc(SelectWindow(Db, chat_id, user_id,
                                          WindowStart(today, days), today)) :
        /\ log' = [op |-> "get_user_activity_report", chat_id |-> chat_id,
                   user_id |-> user_id, days |-> days,
                   ret |-> get_user_activity_report(Db, chat_id, user_id, days, today,
                                                    history, fault)]
        /\ UNCHANGED <<tracked_users, user_streaks, daily_activity, today, time,
                       sweep_due, hist, frames>>

\* The clock moves within the date.
Tick ==
    /\ time < MaxTime
    /\ time' = time + 1
    /\ UNCHANGED <<tracked_users, user_streaks, daily_activity, today, sweep_due, log, hist, frames>>

\* The clock passes 00:00: the next activity date begins and the daily job is due.
Midnight ==
    /\ today < MaxDay
    /\ ~sweep_due
    /\ today' = today + 1
    /\ time' = 0
    /\ sweep_due' = TRUE
    /\ hist' = [k \in Keys |-> NoHist]
    /\ log' = NoLog
    /\ UNCHANGED <<tracked_users, user_streaks, daily_activity, frames>>

\* ------------------------------------------------------------ specifications
\* Calls one after the other, the store always answering.
Next ==
    \/ \E k \in Keys : \E username \in UsernamesOf(k[2]) : Track(k[1], k[2], username, 0)
    \/ \E k \in Keys : Untrack(k[1], k[2], 0)
    \/ \E k \in Keys : RecordEvent(k[1], k[2], 0)
    \/ ScheduledSweep(0)
    \/ TriggerSweep(0)
    \/ Midnight

Spec == Init /\ [][Next]_vars

\* Calls one after the other as the clock moves, the sweep run by the daily job only.
NextDaily ==
    \/ \E k \in Keys : \E username \in UsernamesOf(k[2]) : Track(k[1], k[2], username, 0)
    \/ \E k \in Keys : Untrack(k[1], k[2], 0)
    \/ \E k \in Keys : RecordEvent(k[1], k[2], 0)
    \/ ScheduledSweep(0)
    \/ Tick
    \/ Midnight

SpecDaily == Init /\ [][NextDaily]_vars

\* Calls of one date one after the other, one storage call of each call possibly
\* raising (fault 0: none; a number above the calls made: none either).
NextFault ==
    \/ \E k \in Keys : \E username \in UsernamesOf(k[2]) : \E fault \in 0..4 :
          Track(k[1], k[2], username, fault)
    \/ \E k \in Keys : \E fault \in 0..2 : Untrack(k[1], k[2], fault)
    \/ \E k \in Keys : \E fault \in 0..5 : RecordEvent(k[1], k[2], fault)
    \/ \E fault \in Faults : TriggerSweep(fault)

SpecFault == Init /\ [][NextFault]_vars

\* The subject the reports are about, and whose storage calls may raise.
ReportKeys == {<<1, 1>>}

\* Calls one after the other over several dates, the sweep run by the daily job,
\* with reports on the subject of ReportKeys.  One storage call of a call for that
\* subject possibly raising: the insert of the streak row in enroll (3), the
\* select of update_streak in recordEvent (4), either call of a report.
NextReport ==
    \/ \E k \in Keys : \E username \in UsernamesOf(k[2]) :
          \E fault \in IF k \in ReportKeys THEN {0, 3} ELSE {0} :
             Track(k[1], k[2], username, fault)
    \/ \E k \in Keys : Untrack(k[1], k[2], 0)
    \/ \E k \in Keys : \E fault \in IF k \in ReportKeys THEN {0, 4} ELSE {0} :
          RecordEvent(k[1], k[2], fault)
    \/ ScheduledSweep(0)
    \/ Midnight
    \/ \E k \in ReportKeys : \E days \in 1..MaxWindow : \E fault \in 0..2 :
          Report(k[1], k[2], days, fault)

SpecReport == Init /\ [][NextReport]_vars

\* The usernames a user may carry when /track is sent: a user can change it
\* between two commands.
Handles == {"bob", "@bob"}

\* Enroll and unenroll calls one after the other over several dates, under any
\* username, one storage call of each possibly raising; the messages of one user
\* are recorded and the daily job runs.
NextEnroll ==
    \/ \E k \in Keys : \E username \in Handles : \E fault \in 0..4 :
          Track(k[1], k[2], username, fault)
    \/ \E k \in Keys : \E fault \in 0..2 : Untrack(k[1], k[2], fault)
    \/ \E k \in ReportKeys : RecordEvent(k[1], k[2], 0)
    \/ ScheduledSweep(0)
    \/ Midnight

SpecEnroll == Init /\ [][NextEnroll]_vars

\* /track, /untrack and /report with a username: get_user_by_username(chat_id, username)
FindByHandle(chat_id, username, fault) ==
    \E order \in Orders(tracked_users) :
        /\ log' = [op |-> "get_user_by_username", chat_id |-> chat_id, user_id |-> 0,
                   username |-> username,
                   ret |-> get_user_by_username(Db, chat_id, username, order, fault)]
        /\ UNCHANGED <<tracked_users, user_streaks, daily_activity, today, time,
                       sweep_due, hist, frames>>

\* The chats of the lookups by username.
HandleChats == {1, 2}

\* Enrolls and unenrolls in two chats under either form of the username, and
\* lookups by username.
NextHandle ==
    \/ \E chat_id \in HandleChats : \E user_id \in Users : \E username \in Handles :
          Track(chat_id, user_id, username, 0)
    \/ \E chat_id \in HandleChats : \E user_id \in Users : Untrack(chat_id, user_id, 0)
    \/ \E chat_id \in HandleChats : \E username \in Handles :
          FindByHandle(chat_id, username, 0)

SpecHandle == Init /\ [][NextHandle]_vars

\* ------------------------------------------------- calls, storage call by storage call
\* The same functions with every storage call a step of its own, so that the
\* calls of two threads interleave.  frames[t].pc names the storage call thread t
\* makes next.

\* record_user_message is called (handle_group_message).
BeginRecord(t, chat_id, user_id) ==
    /\ frames[t].pc = "idle"
    /\ frames' = [frames EXCEPT ![t] =
            [Idle EXCEPT !.pc = "rum_is_tracked", !.op = "record_user_message",
                         !.chat_id = chat_id, !.user_id = user_id,
                         !.s0 = SuccessOf(Db, <<chat_id, user_id>>)]]
    /\ UNCHANGED <<tracked_users, user_streaks, daily_activity, today, time, sweep_due, log, hist>>

\* record_user_message returns ret.
RumReturn(t, ret) ==
    LET f == frames[t]
        k == <<f.chat_id, f.user_id>> IN
    /\ frames' = [frames EXCEPT ![t] = Idle]
    /\ log' = [op |-> "record_user_message", chat_id |-> f.chat_id,
               user_id |-> f.user_id, ret |-> ret]
    /\ hist' = IF ret[1] /\ f.now[1] = today
               THEN [hist EXCEPT ![k] =
                       [@ EXCEPT !.calls = Sat(@),
                                 !.firsts = IF ret[2] THEN Sat(@) ELSE @,
                                 !.day_firsts = IF ret[2] THEN Sat(@) ELSE @,
                                 !.s0 = IF hist[k].calls = 0 THEN f.s0 ELSE @]]
               ELSE hist

\* is_user_tracked, and now = datetime.datetime.now(SG_TIMEZONE)
RumIsTracked(t) ==
    LET f == frames[t] IN
    /\ f.pc = "rum_is_tracked"
    /\ IF SelectTracked(Db, f.chat_id, f.user_id) = {}
       THEN RumReturn(t, <<FALSE, FALSE>>)
       ELSE /\ frames' = [frames EXCEPT ![t] = [f EXCEPT !.pc = "rum_select", !.now = Now]]
            /\ UNCHANGED <<log, hist>>
    /\ UNCHANGED <<tracked_users, user_streaks, daily_activity, today, time, sweep_due>>

\* the select of today's daily_activity rows
RumSelect(t) ==
    LET f == frames[t] IN
    /\ f.pc = "rum_select"
    /\ frames' = [frames EXCEPT ![t] =
            [f EXCEPT !.pc = "rum_write",
                      !.result = SelectActivity(Db, f.chat_id, f.user_id, f.now[1])]]
    /\ UNCHANGED <<tracked_users, user_streaks, daily_activity, today, time, sweep_due, log, hist>>

\* the insert or the update of today's row, decided on the rows read
RumWrite(t) ==
    LET f == frames[t] IN
    /\ f.pc = "rum_write"
    /\ IF NoRow(f.result)
       THEN /\ daily_activity' = daily_activity \cup
                  {[chat_id |-> f.chat_id, user_id |-> f.user_id,
                    activity_date |-> f.now[1], messaged |-> TRUE,
                    first_message_time |-> f.now]}
            /\ frames' = [frames EXCEPT ![t] = [f EXCEPT !.pc = "us_select"]]
            /\ UNCHANGED <<log, hist>>
       ELSE IF ~AlreadyMessaged(f.result)
       THEN /\ daily_activity' =
                  {IF r \in SelectActivity(Db, f.chat_id, f.user_id, f.now[1])
                   THEN [r EXCEPT !.messaged = TRUE, !.first_message_time = f.now]
                   ELSE r : r \in daily_activity}
            /\ frames' = [frames EXCEPT ![t] = [f EXCEPT !.pc = "us_select"]]
            /\ UNCHANGED <<log, hist>>
       ELSE /\ RumReturn(t, <<TRUE, FALSE>>)
            /\ UNCHANGED daily_activity
    /\ UNCHANGED <<tracked_users, user_streaks, today, time, sweep_due>>

\* The key and the outcome of the update_streak call the thread is in.
UsKey(f) == IF f.op = "record_user_message" THEN <<f.chat_id, f.user_id>> ELSE Head(f.todo)
UsSuccess(f) == f.op = "record_user_message"

\* update_streak: the select of the streak row
UsSelect(t) ==
    LET f == frames[t] IN
    /\ f.pc = "us_select"
    /\ frames' = [frames EXCEPT ![t] =
            [f EXCEPT !.pc = "us_write",
                      !.result = SelectStreak(Db, UsKey(f)[1], UsKey(f)[2])]]
    /\ UNCHANGED <<tracked_users, user_streaks, daily_activity, today, time, sweep_due, log, hist>>

\* mark_daily_failures returns its list.
MdfReturn(t) ==
    /\ frames' = [frames EXCEPT ![t] = Idle]
    /\ log' = [op |-> "mark_daily_failures", chat_id |-> 0, user_id |-> 0,
               ret |-> frames[t].failures, raised_at |-> NoKey]
    /\ UNCHANGED hist

\* update_streak: the insert or the update of the streak row, computed from the
\* row read; then the caller goes on.
UsWrite(t) ==
    LET f == frames[t]
        k == UsKey(f)
        new == IF f.result = {}
               THEN user_streaks \cup {StreakInsert(k[1], k[2], UsSuccess(f), today)}
               ELSE (user_streaks \ SelectStreak(Db, k[1], k[2])) \cup
                    {StreakUpdate(First(f.result), UsSuccess(f), today)
                        : r \in SelectStreak(Db, k[1], k[2])}
    IN
    /\ f.pc = "us_write"
    /\ Capped([Db EXCEPT !.user_streaks = new])
    /\ user_streaks' = new
    /\ IF f.op = "record_user_message" THEN RumReturn(t, <<TRUE, TRUE>>)
       ELSE IF Tail(f.todo) = <<>> THEN MdfReturn(t)
       ELSE /\ frames' = [frames EXCEPT ![t] =
                    [f EXCEPT !.pc = "us_select", !.todo = Tail(@), !.result = {}]]
            /\ UNCHANGED <<log, hist>>
    /\ UNCHANGED <<tracked_users, daily_activity, today, time, sweep_due>>

\* mark_daily_failures is called: get_tracked_users_without_message reads the
\* date and selects the tracked users.
BeginSweep(t, order) ==
    /\ frames[t].pc = "idle"
    /\ frames' = [frames EXCEPT ![t] =
            [Idle EXCEPT !.pc = "gt_check", !.op = "mark_daily_failures",
                         !.now = Now,
                         !.users = [i \in 1..Len(order) |->
                                      <<order[i].chat_id, order[i].user_id>>]]]
    /\ hist' = [k \in Keys |->
                  IF IsTracked(Db, k)
                  THEN [hist[k] EXCEPT !.sweeps = Sat(@),
                                       !.f0 = IF hist[k].sweeps = 0
                                              THEN FailureOf(Db, k) ELSE @]
                  ELSE hist[k]]
    /\ UNCHANGED <<tracked_users, user_streaks, daily_activity, today, time, log>>

\* The loop is over: mark_daily_failures starts on the failures, or returns.
GtDone(t) ==
    LET f == frames[t] IN
    /\ f.pc = "gt_check" /\ f.users = <<>>
    /\ IF f.failures = <<>> THEN MdfReturn(t)
       ELSE /\ frames' = [frames EXCEPT ![t] =
                    [f EXCEPT !.pc = "us_select", !.todo = f.failures, !.result = {}]]
            /\ UNCHANGED <<log, hist>>
    /\ UNCHANGED <<tracked_users, user_streaks, daily_activity, today, time, sweep_due>>

\* the select of the user's rows of the date with messaged = True
GtCheck(t) ==
    LET f == frames[t] IN
    /\ f.pc = "gt_check" /\ f.users # <<>>
    /\ LET k == Head(f.users) IN
       IF SelectMessaged(Db, k[1], k[2], f.now[1]) # {}
       THEN frames' = [frames EXCEPT ![t] = [f EXCEPT !.users = Tail(@)]]
       ELSE frames' = [frames EXCEPT ![t] =
                [f EXCEPT !.pc = "gt_existing", !.failures = Append(@, k)]]
    /\ UNCHANGED <<tracked_users, user_streaks, daily_activity, today, time, sweep_due, log, hist>>

\* the select of the user's rows of the date
GtExisting(t) ==
    LET f == frames[t]
        k == Head(f.users) IN
    /\ f.pc = "gt_existing"
    /\ IF SelectActivity(Db, k[1], k[2], f.now[1]) = {}
       THEN frames' = [frames EXCEPT ![t] = [f EXCEPT !.pc = "gt_insert"]]
       ELSE frames' = [frames EXCEPT ![t] = [f EXCEPT !.pc = "gt_check", !.users = Tail(@)]]
    /\ UNCHANGED <<tracked_users, user_streaks, daily_activity, today, time, sweep_due, log, hist>>

\* the insert of the messaged = False row
GtInsert(t) ==
    LET f == frames[t]
        k == Head(f.users) IN
    /\ f.pc = "gt_insert"
    /\ daily_activity' = daily_activity \cup {FailureRow(k[1], k[2], f.now[1])}
    /\ frames' = [frames EXCEPT ![t] = [f EXCEPT !.pc = "gt_check", !.users = Tail(@)]]
    /\ UNCHANGED <<tracked_users, user_streaks, today, time, sweep_due, log, hist>>

\* The daily job starts; a run on demand starts.
BeginScheduledSweep(t) ==
    /\ sweep_due
    /\ \E order \in Orders(tracked_users) : BeginSweep(t, order)
    /\ sweep_due' = FALSE

BeginTriggerSweep(t) ==
    /\ \E order \in Orders(tracked_users) : BeginSweep(t, order)
    /\ UNCHANGED sweep_due

\* The subjects of the interleaved calls.
ConcKeys == {<<1, 1>>}

AllIdle == \A t \in Threads : frames[t].pc = "idle"

\* Calls of the handler threads interleaved storage call by storage call; enroll
\* is taken as one step.
NextConc ==
    \/ \E k \in ConcKeys : \E username \in UsernamesOf(k[2]) : Track(k[1], k[2], username, 0)
    \/ \E t \in Threads : \E k \in ConcKeys : BeginRecord(t, k[1], k[2])
    \/ \E t \in Threads : RumIsTracked(t)
    \/ \E t \in Threads : RumSelect(t)
    \/ \E t \in Threads : RumWrite(t)
    \/ \E t \in Threads : UsSelect(t)
    \/ \E t \in Threads : UsWrite(t)
    \/ \E t \in Threads : BeginScheduledSweep(t)
    \/ \E t \in Threads : BeginTriggerSweep(t)
    \/ \E t \in Threads : GtDone(t)
    \/ \E t \in Threads : GtCheck(t)
    \/ \E t \in Threads : GtExisting(t)
    \/ \E t \in Threads : GtInsert(t)
    \/ Midnight

SpecConc == Init /\ [][NextConc]_vars

\* recordEvent calls of one date interleaved storage call by storage call while
\* the clock moves, so that two calls of one date read different instants.
NextOverlap ==
    \/ \E k \in ConcKeys : \E username \in UsernamesOf(k[2]) : Track(k[1], k[2], username, 0)
    \/ \E t \in Threads : \E k \in ConcKeys : BeginRecord(t, k[1], k[2])
    \/ \E t \in Threads : RumIsTracked(t)
    \/ \E t \in Threads : RumSelect(t)
    \/ \E t \in Threads : RumWrite(t)
    \/ \E t \in Threads : UsSelect(t)
    \/ \E t \in Threads : UsWrite(t)
    \/ Tick

SpecOverlap == Init /\ [][NextOverlap]_vars

\* The sweep runs in a daemon thread: when the process stops, the thread stops
\* between two storage calls and the calls not yet made are never made.  The log
\* keeps the date of the stopped sweep, the keys whose failure transition it had
\* written, and the failure streaks it leaves.
Interrupt(t) ==
    LET f == frames[t]
        applied == IF f.pc \in {"us_select", "us_write"}
                   THEN SubSeq(f.failures, 1, Len(f.failures) - Len(f.todo))
                   ELSE <<>>
    IN
    /\ f.op = "mark_daily_failures" /\ f.pc # "idle"
    /\ frames' = [frames EXCEPT ![t] = Idle]
    /\ log' = [op |-> "interrupted", chat_id |-> 0, user_id |-> 0, ret |-> applied,
               date |-> f.now[1], was |-> [k \in Keys |-> FailureOf(Db, k)]]
    /\ UNCHANGED <<tracked_users, user_streaks, daily_activity, today, time, sweep_due, hist>>

\* One thread runs the sweep storage call by storage call and may be stopped
\* anywhere; enroll is taken as one step.
NextResume ==
    \/ \E k \in Keys : \E username \in UsernamesOf(k[2]) : Track(k[1], k[2], username, 0)
    \/ BeginScheduledSweep(1)
    \/ BeginTriggerSweep(1)
    \/ GtDone(1)
    \/ GtCheck(1)
    \/ GtExisting(1)
    \/ GtInsert(1)
    \/ UsSelect(1)
    \/ UsWrite(1)
    \/ Interrupt(1)
    \/ Midnight

SpecResume == Init /\ [][NextResume]_vars

\* ------------------------------------------------------------------- claims
\* The key of the call in the log.
LogKey(l) == <<l.chat_id, l.user_id>>

\* C1: sweep idempotence.  When a sweep directly follows a sweep of the same
\* date (no recordEvent, enroll or unenroll in between), it returns the empty
\* list of newly failed subjects.
C1_SweepTwiceReturnsEmpty ==
    [][(log.op = "mark_daily_failures" /\ log'.op = "mark_daily_failures"
        /\ today' = today)
       => log'.ret = <<>>]_vars

\* C2: no double penalty.  For a tracked subject without a qualifying event on
\* the current date, once one or more sweeps of the date have run, failure_streak
\* is exactly one more than before the first of them.
C2_NoDoublePenalty ==
    \A k \in Keys :
        (IsTracked(Db, k) /\ hist[k].sweeps >= 1 /\ ~Messaged(Db, k, today))
        => FailureOf(Db, k) = hist[k].f0 + 1

\* C3: idempotent first-of-day.  For a tracked subject, of the recordEvent calls
\* made one after the other on the current date exactly the first returned
\* isFirstOfDay = true, and success_streak is one more than before the first call.
C3_FirstOfDayOnce ==
    \A k \in Keys :
        hist[k].calls >= 1
        => /\ hist[k].firsts = 1
           /\ SuccessOf(Db, k) = hist[k].s0 + 1

\* C3 witness: a second recordEvent of the date has returned, with one first-of-day.
C3_Witness ==
    \E k \in Keys : hist[k].calls = 2 /\ hist[k].firsts = 1 /\ SuccessOf(Db, k) = 2

\* C4: concurrent recordEvent calls for one (group, subject) and one date never
\* both perform a first-of-day transition: of the calls of the current date at most
\* one returned isFirstOfDay = true, and success_streak is at most one more than
\* when the first of them began.
C4_OneFirstOfDayUnderConcurrency ==
    \A k \in Keys :
        /\ hist[k].firsts <= 1
        /\ hist[k].calls >= 1 => SuccessOf(Db, k) <= hist[k].s0 + 1

\* C5: a sweep and a recordEvent for one (group, subject) and one date are
\* linearizable.  Both serial orders end with the date's entry messaged = true,
\* success_streak >= 1 and failure_streak = 0; so once every call has returned, no
\* subject has the entry of the date messaged = true with the failure transition
\* applied last.  (Stated for date 1, where every call is a call of that date.)
C5_SweepRecordLinearizable ==
    \A k \in Keys :
        (AllIdle /\ today = 1 /\ IsTracked(Db, k) /\ Messaged(Db, k, today))
        => SuccessOf(Db, k) >= 1 /\ FailureOf(Db, k) = 0

\* C6: streak exclusivity.  No streak row has success_streak > 0 and
\* failure_streak > 0 at the same time.
C6_StreakExclusive ==
    \A r \in user_streaks : ~(r.success_streak > 0 /\ r.failure_streak > 0)

\* C6 witness: a subject whose success of date 1 was followed by a failure, and
\* another whose failure was followed by a success.
C6_Witness ==
    /\ \E k \in Keys : Messaged(Db, k, 1) /\ FailureOf(Db, k) >= 1 /\ SuccessOf(Db, k) = 0
    /\ \E k \in Keys : hist[k].sweeps >= 1 /\ SuccessOf(Db, k) >= 1 /\ FailureOf(Db, k) = 0

\* C8: recordEvent for a (group, subject) that is not enrolled returns NotTracked,
\* (False, False), and changes no subscription, entry or streak row.
C8_NotTrackedNoEffect ==
    [][(log'.op = "record_user_message" /\ ~IsTracked(Db, LogKey(log')))
       => /\ log'.ret = <<FALSE, FALSE>>
          /\ UNCHANGED <<tracked_users, user_streaks, daily_activity>>]_vars

\* C8 witness: a recordEvent for a subject that is not enrolled has returned, while
\* another subject is enrolled and has rows.
C8_Witness ==
    /\ log.op = "record_user_message"
    /\ ~IsTracked(Db, LogKey(log))
    /\ log.ret = <<FALSE, FALSE>>
    /\ tracked_users # {} /\ user_streaks # {} /\ daily_activity # {}

\* C9: enroll returns Added (True) exactly when no subscription for (group,
\* subject) exists; after Added the store holds one subscription, the streak row
\* (0, 0) and an entry for today with messaged = false and no first_event_time.
C9_EnrollSeeds ==
    [][log'.op = "add_tracked_user"
       => LET k == LogKey(log') IN
          /\ log'.ret = ~IsTracked(Db, k)
          /\ log'.ret =>
              /\ Cardinality(SelectTracked(Db', k[1], k[2])) = 1
              /\ \E r \in SelectStreak(Db', k[1], k[2]) :
                    /\ SelectStreak(Db', k[1], k[2]) = {r}
                    /\ r.success_streak = 0 /\ r.failure_streak = 0
              /\ \E r \in SelectActivity(Db', k[1], k[2], today) :
                    /\ SelectActivity(Db', k[1], k[2], today) = {r}
                    /\ r.messaged = FALSE /\ r.first_message_time = NULL]_vars

\* C9 witness: an enroll has returned Added on date 2, after an unenroll.
C9_Witness ==
    /\ log.op = "add_tracked_user" /\ log.ret = TRUE
    /\ today = 2
    /\ SelectActivity(Db, log.chat_id, log.user_id, 2) # {}
    /\ SelectActivity(Db, log.chat_id, log.user_id, 1) = {}
    /\ Cardinality(tracked_users) = 2

\* The number of consecutive dates up to `date` for which the key has an entry
\* with messaged = True.
RECURSIVE Run(_, _, _)
Run(db, k, date) ==
    IF date >= 1 /\ Messaged(db, k, date) THEN 1 + Run(db, k, date - 1) ELSE 0

\* C7: with the sweep run once per date by the daily job, a tracked subject with a
\* qualifying event on each of the last n >= 1 dates up to today has
\* success_streak = n and failure_streak = 0.
C7_StreakCountsDates ==
    \A k \in Keys :
        (IsTracked(Db, k) /\ Messaged(Db, k, today))
        => SuccessOf(Db, k) = Run(Db, k, today) /\ FailureOf(Db, k) = 0

\* A subscription without its streak row or without the entry of `date`, on
\* which a further enroll answers False.
PartialEnrollment(db, k, date) ==
    /\ IsTracked(db, k)
    /\ SelectStreak(db, k[1], k[2]) = {} \/ SelectActivity(db, k[1], k[2], date) = {}
    /\ \A username \in UsernamesOf(k[2]) :
          ~add_tracked_user(db, k[1], k[2], username, date, 0).ret

\* C10: enroll is all-or-nothing under storage failure.  An enroll of a subject
\* that was not enrolled never leaves a subscription without streak row or
\* without today's entry on which a retry answers AlreadyTracked.
C10_EnrollAllOrNothing ==
    [][(log'.op = "add_tracked_user" /\ ~IsTracked(Db, LogKey(log')))
       => ~PartialEnrollment(Db', LogKey(log'), today)]_vars

\* C11: unenroll returns Removed (True) exactly when a subscription exists; after
\* Removed the pair is not tracked, has no streak row, and a report on it finds
\* nothing; when it returns False for want of a subscription nothing changed.
C11_UnenrollRemoves ==
    [][log'.op = "remove_tracked_user"
       => LET k == LogKey(log') IN
          /\ log'.ret = IsTracked(Db, k)
          /\ log'.ret =>
              /\ ~is_user_tracked(Db', k[1], k[2], 1, 0)
              /\ SelectStreak(Db', k[1], k[2]) = {}
              /\ \A days \in 1..MaxWindow :
                    \A history \in OrderDesc(SelectWindow(Db', k[1], k[2],
                                                WindowStart(today, days), today)) :
                       get_user_activity_report(Db', k[1], k[2], days, today,
                                                history, 0) = EmptyDict
          /\ ~log'.ret => UNCHANGED <<tracked_users, user_streaks, daily_activity>>]_vars

\* C11 witness: an unenroll has returned Removed on date 2 while the other subject
\* stays tracked with a streak that is not (0, 0).
C11_Witness ==
    /\ log.op = "remove_tracked_user" /\ log.ret = TRUE
    /\ ~IsTracked(Db, LogKey(log))
    /\ today = 2
    /\ \E r \in user_streaks : r.success_streak + r.failure_streak > 0

\* C12: at most one subscription per (chat_id, user_id), whatever enroll and
\* unenroll calls were made.
C12_OneSubscriptionPerKey ==
    \A r1, r2 \in tracked_users :
        (r1.chat_id = r2.chat_id /\ r1.user_id = r2.user_id) => r1 = r2

\* C12 witness: an enroll of an enrolled pair has answered False, both pairs being
\* enrolled under different usernames.
C12_Witness ==
    /\ log.op = "add_tracked_user" /\ log.ret = FALSE
    /\ IsTracked(Db, LogKey(log))
    /\ \E r1, r2 \in tracked_users : r1.username # r2.username
    /\ today = 2

\* C13: at most one daily_activity row per (chat_id, user_id, activity_date),
\* whatever enroll, unenroll, recordEvent and sweep calls were made one after the
\* other.
C13_OneEntryPerKeyAndDate ==
    \A r1, r2 \in daily_activity :
        (r1.chat_id = r2.chat_id /\ r1.user_id = r2.user_id
         /\ r1.activity_date = r2.activity_date) => r1 = r2

\* C13 witness: on date 2 one subject has the entry of date 1 written by
\* recordEvent and the entry of date 2 written by the sweep, and the other has
\* just been enrolled, with the seeded entry of date 2 only.
C13_Witness ==
    /\ today = 2
    /\ log.op = "add_tracked_user" /\ log.ret = TRUE
    /\ SelectActivity(Db, log.chat_id, log.user_id, 1) = {}
    /\ \E k \in Keys :
          /\ Messaged(Db, k, 1)
          /\ SelectActivity(Db, k[1], k[2], 2) # {}
          /\ ~Messaged(Db, k, 2)
          /\ FailureOf(Db, k) = 1

\* C14: every daily_activity row has first_message_time set exactly when its
\* messaged flag is true.
C14_FirstTimeIffMessaged ==
    \A r \in daily_activity : (r.first_message_time # NULL) <=> r.messaged

\* C14 witness: after the sweep of date 2 there are a row written by recordEvent
\* (date 1), a row inserted by the sweep (date 2, for the subject of that row) and
\* a row seeded by an enroll of date 2.
C14_Witness ==
    /\ today = 2
    /\ log.op = "mark_daily_failures" /\ Len(log.ret) = 2
    /\ \E k \in Keys :
          /\ \E r \in SelectActivity(Db, k[1], k[2], 1) :
                r.messaged /\ r.first_message_time = <<1, 0>>
          /\ \E r \in SelectActivity(Db, k[1], k[2], 2) :
                ~r.messaged /\ r.first_message_time = NULL
    /\ \E k \in Keys :
          /\ SelectActivity(Db, k[1], k[2], 1) = {}
          /\ \E r \in SelectActivity(Db, k[1], k[2], 2) : ~r.messaged

\* C15: first_message_time is write-once.  No step changes the
\* first_message_time of a row that has one: the row of the same (chat_id,
\* user_id, activity_date) in the next state, if there is one, has the same.
C15_FirstTimeWriteOnce ==
    [][\A r \in daily_activity : \A r2 \in daily_activity' :
          (/\ r.first_message_time # NULL
           /\ r2.chat_id = r.chat_id /\ r2.user_id = r.user_id
           /\ r2.activity_date = r.activity_date)
          => r2.first_message_time = r.first_message_time]_vars

\* C16: streak transitions.  A recordEvent that reports first-of-day and wrote the
\* streak row left success_streak one above its value before and failure_streak
\* 0; a sweep left every subject it lists with failure_streak one above its value
\* before and success_streak 0.  A subject without streak row counts as (0, 0).
C16_StreakTransitions ==
    [][/\ (/\ log'.op = "record_user_message" /\ log'.ret = <<TRUE, TRUE>>
           /\ SelectStreak(Db', log'.chat_id, log'.user_id)
                 # SelectStreak(Db, log'.chat_id, log'.user_id))
          => /\ Cardinality(SelectStreak(Db', log'.chat_id, log'.user_id)) = 1
             /\ SuccessOf(Db', LogKey(log')) = SuccessOf(Db, LogKey(log')) + 1
             /\ FailureOf(Db', LogKey(log')) = 0
       /\ log'.op = "mark_daily_failures"
          => \A i \in 1..Len(log'.ret) :
                /\ Cardinality(SelectStreak(Db', log'.ret[i][1], log'.ret[i][2])) = 1
                /\ FailureOf(Db', log'.ret[i]) = FailureOf(Db, log'.ret[i]) + 1
                /\ SuccessOf(Db', log'.ret[i]) = 0]_vars

\* C16 witness: a subject with an event on date 1 was failed by the sweep of
\* date 2 and has then sent the first event of date 2: its streak is (1, 0).
C16_Witness ==
    /\ today = 2
    /\ log.op = "record_user_message" /\ log.ret = <<TRUE, TRUE>>
    /\ hist[LogKey(log)].sweeps = 1 /\ hist[LogKey(log)].f0 = 0
    /\ Messaged(Db, LogKey(log), 1) /\ Messaged(Db, LogKey(log), 2)
    /\ SuccessOf(Db, LogKey(log)) = 1 /\ FailureOf(Db, LogKey(log)) = 0

\* C17: report window.  A report that is not empty carries the success_streak and
\* failure_streak of the streak row and a history of at most `days` rows, all of
\* dates in [today - (days - 1), today], by strictly falling date, that is exactly
\* the stored rows of the user in that window.
C17_ReportWindow ==
    [][(log'.op = "get_user_activity_report" /\ log'.ret # EmptyDict)
       => LET k == LogKey(log')
              days == log'.days
              h == log'.ret.daily_history
          IN
          /\ log'.ret.success_streak = SuccessOf(Db, k)
          /\ log'.ret.failure_streak = FailureOf(Db, k)
          /\ Len(h) <= days
          /\ \A i \in 1..Len(h) :
                h[i].activity_date >= today - (days - 1) /\ h[i].activity_date <= today
          /\ \A i, j \in 1..Len(h) : i < j => h[i].activity_date > h[j].activity_date
          /\ {h[i] : i \in 1..Len(h)} =
                {r \in daily_activity :
                    /\ r.chat_id = k[1] /\ r.user_id = k[2]
                    /\ r.activity_date >= today - (days - 1)
                    /\ r.activity_date <= today}]_vars

\* C17 witness: on date 2 a report of 1 day on a subject with rows of date 1 and
\* date 2 carries the row of date 2 only, while the other subject has rows too.
C17_Witness ==
    /\ today = 2
    /\ log.op = "get_user_activity_report" /\ log.ret # EmptyDict
    /\ log.days = 1
    /\ SelectActivity(Db, log.chat_id, log.user_id, 1) # {}
    /\ Len(log.ret.daily_history) = 1
    /\ log.ret.daily_history[1].activity_date = 2
    /\ log.ret.success_streak = 1
    /\ \E r \in daily_activity : r.user_id # log.user_id

\* C18: a report on a pair without streak row is empty (NotFound), whether or not
\* the pair has daily_activity rows, and a report changes no stored row.
C18_ReportNotFound ==
    [][log'.op = "get_user_activity_report"
       => /\ SelectStreak(Db, log'.chat_id, log'.user_id) = {} => log'.ret = EmptyDict
          /\ UNCHANGED <<tracked_users, user_streaks, daily_activity>>]_vars

\* C18 witness: a report on a tracked subject that has a row of today with
\* messaged = True and no streak row has come back empty.
C18_Witness ==
    /\ log.op = "get_user_activity_report" /\ log.ret = EmptyDict
    /\ IsTracked(Db, LogKey(log))
    /\ SelectStreak(Db, log.chat_id, log.user_id) = {}
    /\ Messaged(Db, LogKey(log), today)

\* C19: a sweep takes no action for a tracked subject that has a row of the
\* swept date with messaged = True: the subject is not in the list returned and
\* its daily_activity rows and its streak row are as before the sweep.
C19_SweepSkipsMessaged ==
    [][log'.op = "mark_daily_failures"
       => \A k \in Keys :
             (IsTracked(Db, k) /\ Messaged(Db, k, today))
             => /\ \A i \in 1..Len(log'.ret) : log'.ret[i] # k
                /\ SelectStreak(Db', k[1], k[2]) = SelectStreak(Db, k[1], k[2])
                /\ {r \in daily_activity' : r.chat_id = k[1] /\ r.user_id = k[2]}
                      = {r \in daily_activity : r.chat_id = k[1] /\ r.user_id = k[2]}]_vars

\* C19 witness: a sweep has listed one subject and left the other, which has its
\* event of the date, with its success streak.
C19_Witness ==
    /\ log.op = "mark_daily_failures" /\ Len(log.ret) = 1
    /\ \E k \in Keys :
          /\ IsTracked(Db, k) /\ Messaged(Db, k, today)
          /\ log.ret[1] # k
          /\ SuccessOf(Db, k) = 1 /\ FailureOf(Db, k) = 0
          /\ hist[k].sweeps >= 1

\* C20: per-subject error isolation in the sweep.  When a storage call made for
\* one subject raised, every other tracked subject without event of the date has
\* a row of the date, its failure_streak one above its value before, and a place
\* in the list returned.
C20_SweepIsolatesFailures ==
    [][(log'.op = "mark_daily_failures" /\ log'.raised_at \in Keys)
       => \A k \in Keys \ {log'.raised_at} :
             (IsTracked(Db, k) /\ ~Messaged(Db, k, today))
             => /\ \E i \in 1..Len(log'.ret) : log'.ret[i] = k
                /\ SelectActivity(Db', k[1], k[2], today) # {}
                /\ FailureOf(Db', k) = FailureOf(Db, k) + 1]_vars

\* C21: entry and streak stay consistent under storage failure.  Once a later
\* recordEvent of the date has returned for a tracked subject whose entry of the
\* date has messaged = True, the success transition of the date has been applied:
\* success_streak is at least 1.
C21_EntryStreakConsistent ==
    \A k \in Keys :
        (IsTracked(Db, k) /\ Messaged(Db, k, today) /\ hist[k].calls >= 2)
        => SuccessOf(Db, k) >= 1

\* C22: a storage failure is told apart from the normal outcomes.  An enroll
\* answers False only for a pair that is tracked (AlreadyTracked), and a
\* recordEvent answers (False, False) only for a pair that is not (NotTracked).
C22_FailureDistinguishable ==
    [][/\ (log'.op = "add_tracked_user" /\ log'.ret = FALSE)
          => IsTracked(Db, LogKey(log'))
       /\ (log'.op = "record_user_message" /\ log'.ret = <<FALSE, FALSE>>)
          => ~IsTracked(Db, LogKey(log'))]_vars


\* C23: resumable sweep.  When a sweep that had written failure transitions is
\* stopped and the next call is a complete sweep of the same date, every tracked
\* subject without an event of the date has an entry with messaged = False and
\* exactly one failure transition of the date: the stopped sweep's if it had
\* written it, the complete sweep's otherwise.
C23_ResumedSweepExactlyOnce ==
    [][(/\ log.op = "interrupted" /\ log.ret # <<>> /\ log.date = today
        /\ log'.op = "mark_daily_failures" /\ frames[1].now[1] = today)
       => \A k \in Keys :
            (IsTracked(Db, k) /\ ~Messaged(Db, k, today))
            => /\ \E r \in daily_activity' :
                    /\ <<r.chat_id, r.user_id>> = k
                    /\ r.activity_date = today /\ ~r.messaged
               /\ FailureOf([Db EXCEPT !.user_streaks = user_streaks'], k)
                    = log.was[k]
                      + (IF \E i \in 1..Len(log.ret) : log.ret[i] = k THEN 0 ELSE 1)]_vars


\* C24: findByHandle(group, handle) returns a subscription of that group whose
\* stored handle is handle, or '@' + handle when none has handle itself; it
\* returns nothing only when the group stores neither form, and never returns a
\* subscription of another group.
C24_FindByHandle ==
    [][log'.op = "get_user_by_username"
       => LET exact == {r \in tracked_users : r.chat_id = log'.chat_id
                                               /\ r.username = log'.username}
              at == {r \in tracked_users : r.chat_id = log'.chat_id
                                            /\ r.username = "@" \o log'.username}
          IN
          /\ exact # {} => log'.ret \in exact
          /\ (exact = {} /\ at # {}) => log'.ret \in at
          /\ log'.ret = EmptyDict <=> (exact = {} /\ at = {})
          /\ log'.ret # EmptyDict => log'.ret.chat_id = log'.chat_id]_vars

\* C24 witness: a lookup of "bob" has returned the row stored as "bob" of its
\* chat while the chat also stores "@bob" and another chat stores "bob".
C24_Witness ==
    /\ log.op = "get_user_by_username" /\ log.username = "bob"
    /\ log.ret # EmptyDict /\ log.ret.username = "bob"
    /\ \E r \in tracked_users : r.chat_id = log.chat_id /\ r.username = "@bob"
    /\ \E r \in tracked_users : r.chat_id # log.chat_id /\ r.username = "bob"


\* C25: isFirstOfDay is answered true at most once for a (group, subject, date),
\* over any sequence of enroll, unenroll, recordEvent and sweep, an unenroll and
\* enroll on the date after the event included.
C25_FirstOfDayOncePerDate ==
    \A k \in Keys : hist[k].day_firsts <= 1


\* C26: late event after a sweep.  When a sweep of the date has failed a tracked
\* subject (its entry of the date has messaged = False, its failure_streak is at
\* least 1), the next recordEvent of the date is first-of-day: it sets the entry
\* to messaged = True with the instant as first_message_time and the streak to
\* (1, 0), and a further sweep of the date does not list the subject.
C26_LateEventAfterSweep ==
    [][\A k \in Keys :
         (/\ log'.op = "record_user_message" /\ LogKey(log') = k
          /\ IsTracked(Db, k) /\ hist[k].sweeps >= 1
          /\ \E r \in daily_activity :
                /\ <<r.chat_id, r.user_id>> = k
                /\ r.activity_date = today /\ ~r.messaged
          /\ ~Messaged(Db, k, today)
          /\ FailureOf(Db, k) >= 1)
         => /\ log'.ret = <<TRUE, TRUE>>
            /\ {r \in daily_activity' : <<r.chat_id, r.user_id>> = k
                                         /\ r.activity_date = today}
                 = {[chat_id |-> k[1], user_id |-> k[2], activity_date |-> today,
                     messaged |-> TRUE, first_message_time |-> Now]}
            /\ SuccessOf(Db', k) = 1 /\ FailureOf(Db', k) = 0
            /\ \A order \in Orders(tracked_users') :
                  LET ret == mark_daily_failures(Db', today, order, 0).ret IN
                  \A i \in 1..Len(ret) : ret[i] # k]_vars

\* C26 witness: a subject with an event on date 1 was failed by a sweep of date 2
\* before its first event of date 2 (its success streak was 0 at that event), has
\* streak (1, 0), and a further sweep of date 2 has not listed it.
C26_Witness ==
    /\ today = 2 /\ log.op = "mark_daily_failures"
    /\ \E k \in Keys :
          /\ IsTracked(Db, k) /\ Messaged(Db, k, 1) /\ Messaged(Db, k, 2)
          /\ hist[k].calls >= 1 /\ hist[k].s0 = 0 /\ hist[k].sweeps = 2
          /\ SuccessOf(Db, k) = 1 /\ FailureOf(Db, k) = 0
          /\ \A i \in 1..Len(log.ret) : log.ret[i] # k


\* C27: write footprint of recordEvent.  A call that is not first-of-day changes
\* no row; a first-of-day call changes the entry of (group, subject, today) and
\* the streak row of (group, subject), and no row of another key or another date.
C27_RecordEventFootprint ==
    [][log'.op = "record_user_message"
       => LET k == LogKey(log')
              Mine(r) == r.chat_id = k[1] /\ r.user_id = k[2]
          IN
          /\ tracked_users' = tracked_users
          /\ ~log'.ret[2] => /\ user_streaks' = user_streaks
                             /\ daily_activity' = daily_activity
          /\ log'.ret[2]
             => /\ {r \in user_streaks' : ~Mine(r)} = {r \in user_streaks : ~Mine(r)}
                /\ {r \in daily_activity' : ~(Mine(r) /\ r.activity_date = today)}
                     = {r \in daily_activity : ~(Mine(r) /\ r.activity_date = today)}
                /\ {r \in user_streaks' : Mine(r)} # {r \in user_streaks : Mine(r)}
                /\ {r \in daily_activity' : Mine(r) /\ r.activity_date = today}
                     # {r \in daily_activity : Mine(r) /\ r.activity_date = today}]_vars

\* C27 witness: a first-of-day call has returned on date 2 for a subject that has
\* an entry of date 1, while the other subject is tracked with a failure streak
\* and entries of its own.
C27_Witness ==
    /\ today = 2 /\ log.op = "record_user_message" /\ log.ret = <<TRUE, TRUE>>
    /\ \E r \in daily_activity :
          <<r.chat_id, r.user_id>> = LogKey(log) /\ r.activity_date = 1
    /\ \E k \in Keys :
          /\ k # LogKey(log) /\ IsTracked(Db, k) /\ FailureOf(Db, k) >= 1
          /\ \E r \in daily_activity : <<r.chat_id, r.user_id>> = k


\* C28: both counters of a tracked subject are zero only while no streak
\* transition has been applied since its enrollment.  A step that applies a
\* transition leaves exactly one counter nonzero; a streak row with both counters
\* zero is the row of an enrollment of this step or a row no transition has
\* touched; and a row with exactly one counter nonzero keeps exactly one nonzero
\* until the subject is enrolled anew.
C28_ZeroOnlyBeforeFirstTransition ==
    [][\A k \in Keys :
         (IsTracked(Db', k) /\ SelectStreak(Db', k[1], k[2]) # {})
         => LET s == SuccessOf(Db', k)
                f == FailureOf(Db', k)
                applied == \/ /\ log'.op = "record_user_message"
                              /\ LogKey(log') = k /\ log'.ret[2]
                           \/ /\ log'.op = "mark_daily_failures"
                              /\ \E i \in 1..Len(log'.ret) : log'.ret[i] = k
                enrolled == /\ log'.op = "add_tracked_user"
                            /\ LogKey(log') = k /\ log'.ret
            IN
            /\ applied => (s = 0) # (f = 0)
            /\ (s = 0 /\ f = 0)
               => /\ ~applied
                  /\ enrolled \/ SelectStreak(Db', k[1], k[2]) = SelectStreak(Db, k[1], k[2])
            /\ (IsTracked(Db, k) /\ ~enrolled
                /\ ((SuccessOf(Db, k) = 0) # (FailureOf(Db, k) = 0)))
               => (s = 0) # (f = 0)]_vars

\* C28 witness: on date 2 one subject has a nonzero success streak after events
\* on both dates and a sweep in between, while the other, enrolled on date 2 and
\* touched by no transition, has both counters zero.
C28_Witness ==
    /\ today = 2 /\ log.op = "record_user_message" /\ log.ret = <<TRUE, TRUE>>
    /\ Messaged(Db, LogKey(log), 1)
    /\ SuccessOf(Db, LogKey(log)) >= 1 /\ FailureOf(Db, LogKey(log)) = 0
    /\ \E k \in Keys :
          /\ k # LogKey(log) /\ IsTracked(Db, k)
          /\ SelectStreak(Db, k[1], k[2]) # {}
          /\ SuccessOf(Db, k) = 0 /\ FailureOf(Db, k) = 0
          /\ hist[k].sweeps = 0 /\ ~Messaged(Db, k, today)


\* C29: enrollment-day sweep.  The entry seeded with messaged = False by an enroll
\* does not count as processed: the first sweep of the date after the enroll
\* lists a subject enrolled on the date that has had no event, and its
\* failure_streak becomes 1.
C29_EnrollmentDaySweep ==
    [][log'.op = "mark_daily_failures"
       => \A k \in Keys :
            (/\ IsTracked(Db, k) /\ hist[k].sweeps = 0 /\ hist[k].calls = 0
             /\ SelectStreak(Db, k[1], k[2]) # {}
             /\ SuccessOf(Db, k) = 0 /\ FailureOf(Db, k) = 0
             /\ \E r \in daily_activity :
                   /\ <<r.chat_id, r.user_id>> = k
                   /\ r.activity_date = today /\ ~r.messaged
             /\ ~Messaged(Db, k, today))
            => /\ \E i \in 1..Len(log'.ret) : log'.ret[i] = k
               /\ FailureOf(Db', k) = 1 /\ SuccessOf(Db', k) = 0
               /\ ~Messaged(Db', k, today)]_vars

\* C29 witness: the first sweep since an enroll of date 2 has listed the subject
\* enrolled on date 2, which has failure streak 1 and its seeded entry.
C29_Witness ==
    /\ today = 2 /\ log.op = "mark_daily_failures"
    /\ \E k \in Keys :
          /\ \E i \in 1..Len(log.ret) : log.ret[i] = k
          /\ IsTracked(Db, k) /\ hist[k].sweeps = 1 /\ hist[k].f0 = 0
          /\ FailureOf(Db, k) = 1
          /\ SelectActivity(Db, k[1], k[2], 1) = {}
          /\ SelectActivity(Db, k[1], k[2], 2) # {} /\ ~Messaged(Db, k, 2)


\* C30: an enroll of a pair that is tracked returns AlreadyTracked (False) and
\* leaves the subscription with its stored username, the streak counters and
\* every entry as they were.
C30_EnrollTrackedChangesNothing ==
    [][(log'.op = "add_tracked_user" /\ IsTracked(Db, LogKey(log')))
       => /\ log'.ret = FALSE
          /\ UNCHANGED <<tracked_users, user_streaks, daily_activity>>]_vars

\* C30 witness: an enroll has answered False for a pair stored as "@bob" that has
\* its event of date 2 and a success streak of 2, the other pair being stored as
\* "bob".
C30_Witness ==
    /\ today = 2 /\ log.op = "add_tracked_user" /\ log.ret = FALSE
    /\ \E r \in tracked_users :
          <<r.chat_id, r.user_id>> = LogKey(log) /\ r.username = "@bob"
    /\ \E r \in tracked_users :
          <<r.chat_id, r.user_id>> # LogKey(log) /\ r.username = "bob"
    /\ Messaged(Db, LogKey(log), 2) /\ SuccessOf(Db, LogKey(log)) = 2

====
